---- MODULE Spec2Model ----
(***************************************************************************)
(* The population controller qAFQMC of afqmc/quantum_afqmc_pennylane.py    *)
(* and the step driver ImagTimePropagator_QAEE it dispatches.              *)
(*                                                                         *)
(* Numbers.  Weights live on an integer grid whose unit is the pruning     *)
(* threshold 1e-16 of the code (Threshold), with 1.0 placed at UnitWeight  *)
(* and the largest representable weight at MaxWeight (saturating, like a   *)
(* float's range).  Energies are exact rationals <<p, q>> in lowest terms  *)
(* with q > 0; <<0, 0>> is a non-finite float (inf or NaN).  Only the real *)
(* part of the classical local energy is kept: the code reads nothing else *)
(* (np.real at lines 505 and 690).  Complex device values are pairs        *)
(* <<re, im>>.  Times are counted in units of 1e-5.                        *)
(*                                                                         *)
(* Walkers.  A walker matrix is abstracted to the two deterministic        *)
(* classical observables the code evaluates on it: its local energy and    *)
(* its overlap with the trial state.                                       *)
(***************************************************************************)
EXTENDS Integers, Sequences, FiniteSets, TLC

\* ---------------------------------------------------------------- bounds
MaxWalkers == 2         \* walkers in a run
MaxSteps == 4           \* num_steps of a run
MaxWork == 6            \* walkers times loop iterations of a run
MaxPool == 2            \* workers of the pool
MaxWorkNI == 4          \* walkers times loop iterations of a pair of runs
MaxWeight == 4          \* largest weight on the grid
MaxScale == 3           \* largest factor the weights are rescaled by

\* ------------------------------------------------------- program constants
Threshold == 1          \* 1E-16, the pruning threshold
UnitWeight == 2         \* 1.0, the initial weight
RoundUnit == 10         \* np.round(t, 4): 1e-4 in time units of 1e-5
TimeUnit == 100000      \* int(..): 1.0 in time units of 1e-5
Pi == 314               \* np.angle(-1), in gate angle units of 0.01 rad
HalfPi == 157           \* np.pi/2, in gate angle units of 0.01 rad
NumQubits == 4          \* wires of the trial circuit V_T
enuc == 1               \* nuclear repulsion energy (argument of qAFQMC)

\* ------------------------------------------------------------ value domains
CEnergies == {0, 1}
Overlaps == {<<1, 0>>, <<-1, 0>>}
Walkers == { [E |-> 0, ovlp |-> <<1, 0>>], [E |-> 1, ovlp |-> <<1, 0>>],
             [E |-> 0, ovlp |-> <<-1, 0>>] }
TrialState == [E |-> 0, ovlp |-> <<1, 0>>]
HFEnergies == {0, 1}
QAmplitudes == {<<0, 0>>, <<1, 0>>, <<0, 1>>}
QLocalEnergies == {<<1, 0>>}
DeviceOutputs == [amplitude : QAmplitudes, local_energy : QLocalEnergies]
\* overlaps with the quantum trial state that amplitude_estimate can return
QOverlaps == {<<0, 0>>, <<1, 0>>, <<0, 1>>, <<-1, 0>>, <<0, -1>>}
Schedules == { [dtau |-> 1000, q_total_time |-> {}],
               [dtau |-> 1000, q_total_time |-> {1000, 3000}],
               [dtau |-> 5,    q_total_time |-> {0, 10}] }

VARIABLES
    num_walkers, num_steps, q_total_time, dtau, trial, Ehf, max_pool,
    cE_list, qE_list, E_shift, walkers, weights, t_step,
    weight_list, walker_list, cenergy_list, inputs,
    pool_func, pool_tasks, pc, exc, runB, est, mem

args == <<num_walkers, num_steps, q_total_time, dtau, trial, Ehf, max_pool>>
state == <<cE_list, qE_list, E_shift, walkers, weights, t_step>>
locals == <<weight_list, walker_list, cenergy_list, inputs>>
pool == <<pool_func, pool_tasks>>
vars == <<args, state, locals, pool, pc, exc, runB, est, mem>>

\* ------------------------------------------------------------- arithmetic
Abs(n) == IF n < 0 THEN -n ELSE n
Min(a, b) == IF a < b THEN a ELSE b

RECURSIVE GCD(_, _)
GCD(a, b) == IF b = 0 THEN a ELSE GCD(b, a % b)

NonFinite == <<0, 0>>
IsFinite(v) == v[2] # 0

\* the float value p/q, q > 0
Rat(p, q) == LET g == GCD(Abs(p), q) IN <<p \div g, q \div g>>

CAdd(a, b) == <<a[1] + b[1], a[2] + b[2]>>
CScale(r, a) == <<r * a[1], r * a[2]>>
CMul(a, b) == <<a[1] * b[1] - a[2] * b[2], a[1] * b[2] + a[2] * b[1]>>
CConj(a) == <<a[1], -a[2]>>
\* a / c for an overlap c of modulus 1
CDiv(a, c) == CMul(a, CConj(c))

\* np.real(n / d) for numpy complex scalars: a zero divisor gives inf or NaN
\* (with a RuntimeWarning), never an exception
NpRealDivide(n, d) ==
    IF d = <<0, 0>> THEN NonFinite
    ELSE Rat(n[1] * d[1] + n[2] * d[2], d[1] * d[1] + d[2] * d[2])

RECURSIVE Sum(_)
Sum(s) == IF Len(s) = 0 THEN 0 ELSE Head(s) + Sum(Tail(s))

RECURSIVE Dot(_, _)
Dot(a, w) == IF Len(a) = 0 THEN 0 ELSE Head(a) * Head(w) + Dot(Tail(a), Tail(w))

\* ------------------------------------------------------------ step drivers
\* np.linalg.det(trial.transpose().conj() @ walker)
Overlap(walker) == walker.ovlp

\* local_energy(h1e, eri, [G_pq(up), G_pq(down)], enuc), real part
LocalEnergy(walker) == walker.E

\* np.exp(-dtau*(np.real(E_loc) - E_shift)) as a ratio <<num, den>>: below 1
\* when E_loc is above the shift, above 1 when it is below, 1 when equal
ExpFactor(E_loc, shift) ==
    LET d == E_loc * shift[2] - shift[1]
    IN  IF d > 0 THEN <<1, 2>> ELSE IF d < 0 THEN <<2, 1>> ELSE <<1, 1>>

\* variant: the cosine is not clamped at zero
CosFactor_Unclamped(new_ovlp, ovlp) ==
    IF new_ovlp = <<0, 0>> THEN 1 ELSE CDiv(new_ovlp, ovlp)[1]

\* np.max([0., np.cos(np.angle(new_ovlp / ovlp))]) for overlaps of modulus 1:
\* the cosine of the angle of a unit complex is its real part; np.angle(0)
\* is 0
CosFactor(new_ovlp, ovlp) ==
    IF new_ovlp = <<0, 0>> THEN 1
    ELSE LET c == CDiv(new_ovlp, ovlp)[1] IN IF c > 0 THEN c ELSE 0

\* new_weight = weight * exp(..) * max(0, cos(arg))
NewWeight(weight, E_loc, shift, new_ovlp, ovlp) ==
    LET e == ExpFactor(E_loc, shift)
    IN  Min(MaxWeight, (weight * e[1] * CosFactor(new_ovlp, ovlp)) \div e[2])

\* variant: the weight update reads the device's overlap, as the fully
\* quantum driver qImagTimePropagator does
ImagTimePropagator_QAEE_Quantum(inp, new_walker, dev) ==
    LET E_loc    == LocalEnergy(inp.walker)
        c_ovlp   == Overlap(inp.walker)
        q_ovlp   == dev.amplitude
        E_loc_q  == CAdd(dev.local_energy, CScale(enuc, q_ovlp))
        new_ovlp == Overlap(new_walker)
    IN  [ E_loc      |-> E_loc,
          E_loc_q    |-> CDiv(E_loc_q, c_ovlp),
          ovlp_ratio |-> CDiv(q_ovlp, c_ovlp),
          new_walker |-> new_walker,
          new_weight |-> NewWeight(inp.weight, E_loc, inp.E_shift, new_ovlp, q_ovlp) ]

\* One call of the QAEE step driver on the input tuple inp.  new_walker is
\* what PropagateWalker returns for the auxiliary field drawn in the call,
\* dev what the device returns to amplitude_estimate / local_energy_quantum.
ImagTimePropagator_QAEE(inp, new_walker, dev) ==
    LET ovlp     == Overlap(inp.walker)
        E_loc    == LocalEnergy(inp.walker)
        c_ovlp   == Overlap(inp.walker)
        q_ovlp   == dev.amplitude
        E_loc_q  == CAdd(dev.local_energy, CScale(enuc, q_ovlp))
        new_ovlp == Overlap(new_walker)
    IN  [ E_loc      |-> E_loc,
          E_loc_q    |-> CDiv(E_loc_q, c_ovlp),
          ovlp_ratio |-> CDiv(q_ovlp, c_ovlp),
          new_walker |-> new_walker,
          new_weight |-> NewWeight(inp.weight, E_loc, inp.E_shift, new_ovlp, ovlp) ]

\* One call of the classical step driver afqmc.classical_afqmc.ImagTimePropagator
ImagTimePropagator(inp, new_walker) ==
    LET ovlp     == Overlap(inp.walker)
        E_loc    == LocalEnergy(inp.walker)
        new_ovlp == Overlap(new_walker)
    IN  [ E_loc      |-> E_loc,
          new_walker |-> new_walker,
          new_weight |-> NewWeight(inp.weight, E_loc, inp.E_shift, new_ovlp, ovlp) ]

\* One call of the fully quantum step driver qImagTimePropagator on the input
\* inp = [walker, weight, ovlp, E_shift].  new_walker is what qPropagateWalker
\* returns, dev.local_energy what local_energy_quantum returns and
\* dev.amplitude what amplitude_estimate returns for the new walker.  The
\* weight is a float <<w, 1>>; with ovlp = 0 the divisions by ovlp are numpy's
\* and E_loc, arg and the weight all come out NaN.
qImagTimePropagator(inp, new_walker, dev) ==
    LET ovlp     == inp.ovlp
        E_loc    == CDiv(dev.local_energy, ovlp)[1] + enuc
        new_ovlp == dev.amplitude
    IN  [ E_loc      |-> IF ovlp = <<0, 0>> THEN NonFinite ELSE <<E_loc, 1>>,
          new_ovlp   |-> new_ovlp,
          new_walker |-> new_walker,
          new_weight |-> IF ovlp = <<0, 0>> THEN NonFinite
                         ELSE <<NewWeight(inp.weight, E_loc, inp.E_shift, new_ovlp, ovlp), 1>> ]

\* ------------------------------------------------------ population controller
\* np.round(t, 4): to the nearest multiple of 1e-4, ties to even
Round4(t) ==
    LET q == t \div RoundUnit
        r == t % RoundUnit
    IN  IF 2 * r < RoundUnit THEN RoundUnit * q
        ELSE IF 2 * r > RoundUnit THEN RoundUnit * (q + 1)
        ELSE IF q % 2 = 0 THEN RoundUnit * q ELSE RoundUnit * (q + 1)

\* variant: the time is compared unrounded
IsCheckpoint_Unrounded(step, dt, checkpoints) == (step * dt) \in checkpoints

\* np.round(t, 4) in q_total_time, with t = t_step * dtau
IsCheckpoint(step, dt, checkpoints) == Round4(step * dt) \in checkpoints

\* variant: a weight exactly at the threshold is kept
Survives_AtThreshold(new_weight) == new_weight >= Threshold

\* if new_weight > 1E-16
Survives(new_weight) == new_weight > Threshold

\* the loops over results: every result's energy is kept, a walker and its
\* weight only when the weight survives
RECURSIVE KeepWeights(_)
KeepWeights(rs) ==
    IF Len(rs) = 0 THEN <<>>
    ELSE (IF Survives(Head(rs).new_weight) THEN <<Head(rs).new_weight>> ELSE <<>>)
         \o KeepWeights(Tail(rs))

RECURSIVE KeepWalkers(_)
KeepWalkers(rs) ==
    IF Len(rs) = 0 THEN <<>>
    ELSE (IF Survives(Head(rs).new_weight) THEN <<Head(rs).new_walker>> ELSE <<>>)
         \o KeepWalkers(Tail(rs))

CEnergyList(rs) == [i \in 1..Len(rs) |-> rs[i].E_loc]

\* numerator, denominator of the ratio estimator, accumulated over range(len(weights))
RECURSIVE Numerator(_, _)
Numerator(ws, rs) ==
    IF Len(ws) = 0 THEN <<0, 0>>
    ELSE CAdd(CScale(Head(ws), Head(rs).E_loc_q), Numerator(Tail(ws), Tail(rs)))

RECURSIVE Denominator(_, _)
Denominator(ws, rs) ==
    IF Len(ws) = 0 THEN <<0, 0>>
    ELSE CAdd(CScale(Head(ws), Head(rs).ovlp_ratio), Denominator(Tail(ws), Tail(rs)))

\* variant: the overlap ratios are summed without their weights
QuantumEnergy_UnweightedDenominator(ws, rs) ==
    NpRealDivide(Numerator(ws, rs), Denominator([i \in 1..Len(ws) |-> 1], rs))

\* qE = np.real(numerator / denominator)
QuantumEnergy(ws, rs) == NpRealDivide(Numerator(ws, rs), Denominator(ws, rs))

\* variant: the zero weight sum is not caught and the division goes ahead
NpAverageRaises_Never(a, w) == FALSE

\* np.average(cenergy_list, weights=weights) raises ZeroDivisionError
\* ("Weights sum to zero, can't be normalized") before it divides
NpAverageRaises(a, w) == Sum(w) = 0

\* variant: the plain mean of the energies, the weights ignored
NpAverage_Unweighted(a, w) == IF Len(a) = 0 THEN NonFinite ELSE Rat(Sum(a), Len(a))

\* np.real(np.average(cenergy_list, weights=weights)): sum(a * w) / sum(w)
NpAverage(a, w) == IF Sum(w) = 0 THEN NonFinite ELSE Rat(Dot(a, w), Sum(w))

\* numerator / denominator raises ZeroDivisionError when both are still the
\* Python complex 0.+0.j they start as, that is when no walker was looped
\* over; once a numpy scalar has been added the division is numpy's
PyDivideRaises(ws) == Len(ws) = 0

\* variant: the loop stops one step early
LoopTest_Strict(step, n) == step < n

\* while t_step <= num_steps
LoopTest(step, n) == step <= n

\* the input tuples of one step
Inputs(wks, wts, shift) ==
    [i \in 1..Len(wts) |-> [walker |-> wks[i], weight |-> wts[i], E_shift |-> shift]]

\* int(x) for a time x >= 0: truncation to whole units, as a time
IntTrunc(x) == (x \div TimeUnit) * TimeUnit

\* np.linspace(start, stop, num=num): num evenly spaced values from start to
\* stop, both included; the single value start when num = 1
Linspace(start, stop, num) ==
    [i \in 1..num |->
        IF num = 1 THEN <<start, 1>>
        ELSE Rat(start * (num - 1) + (i - 1) * (stop - start), num - 1)]

\* total_time = np.linspace(dtau, int(dtau*num_steps), num=num_steps), built
\* before the loop from the arguments and returned unchanged
total_time == Linspace(dtau, IntTrunc(dtau * num_steps), num_steps)

\* ------------------------------------------------------------------- Init
\* the state of qAFQMC on entry to its loop, for every run configuration
ArgsInit ==
    /\ num_walkers \in 1..MaxWalkers
    /\ num_steps \in 1..MaxSteps
    /\ num_walkers * (num_steps + 1) <= MaxWork
    /\ max_pool \in 1..MaxPool
    /\ \E s \in Schedules : dtau = s.dtau /\ q_total_time = s.q_total_time
    /\ trial = TrialState
    /\ Ehf \in HFEnergies

InitRun ==
    /\ ArgsInit
    /\ cE_list = <<>>
    /\ qE_list = <<>>
    /\ E_shift = <<Ehf, 1>>
    /\ walkers = [i \in 1..num_walkers |-> trial]
    /\ weights = [i \in 1..num_walkers |-> UnitWeight]
    /\ t_step = 0
    /\ weight_list = <<>>
    /\ walker_list = <<>>
    /\ cenergy_list = <<>>
    /\ inputs = <<>>
    /\ pool_func = "none"
    /\ pool_tasks = <<>>
    /\ pc = "loop"
    /\ exc = "none"

Init ==
    /\ InitRun
    /\ runB = <<>>
    /\ est = <<>>
    /\ mem = <<>>

\* ---------------------------------------------------------------- actions
Finished(i) == pool_tasks[i].st \in {"returned", "failed"}
Busy == {i \in 1..Len(pool_tasks) : pool_tasks[i].st = "running"}

\* the loop test passes: reset the step's lists, build the inputs of the
\* branch the step's time selects and hand them to pool.map
Dispatch ==
    /\ pc = "loop"
    /\ LoopTest(t_step, num_steps)
    /\ weight_list' = <<>>
    /\ walker_list' = <<>>
    /\ cenergy_list' = <<>>
    /\ inputs' = Inputs(walkers, weights, E_shift)
    /\ pool_func' = IF IsCheckpoint(t_step, dtau, q_total_time)
                    THEN "multi_run_wrapper_QAEE" ELSE "multi_run_wrapper"
    /\ pool_tasks' = [i \in 1..Len(weights) |-> [st |-> "queued"]]
    /\ pc' = "map"
    /\ UNCHANGED <<args, state, exc, runB, est, mem>>

\* a free worker of the pool takes the next input of the batch
TaskStart(i) ==
    /\ pc = "map"
    /\ pool_tasks[i].st = "queued"
    /\ \A j \in 1..(i - 1) : pool_tasks[j].st # "queued"
    /\ Cardinality(Busy) < max_pool
    /\ pool_tasks' = [pool_tasks EXCEPT ![i] = [st |-> "running"]]
    /\ UNCHANGED <<args, state, locals, pool_func, pc, exc, runB, est, mem>>

\* the walker's step driver returns
TaskReturn(i) ==
    /\ pc = "map"
    /\ pool_tasks[i].st = "running"
    /\ \E new_walker \in Walkers :
          IF pool_func = "multi_run_wrapper_QAEE"
          THEN \E dev \in DeviceOutputs :
                 pool_tasks' = [pool_tasks EXCEPT ![i] =
                     [st |-> "returned",
                      result |-> ImagTimePropagator_QAEE(inputs[i], new_walker, dev)]]
          ELSE pool_tasks' = [pool_tasks EXCEPT ![i] =
                     [st |-> "returned",
                      result |-> ImagTimePropagator(inputs[i], new_walker)]]
    /\ UNCHANGED <<args, state, locals, pool_func, pc, exc, runB, est, mem>>

\* the walker's step driver (its device call included) raises
TaskFail(i) ==
    /\ pc = "map"
    /\ pool_tasks[i].st = "running"
    /\ pool_tasks' = [pool_tasks EXCEPT ![i] = [st |-> "failed"]]
    /\ UNCHANGED <<args, state, locals, pool_func, pc, exc, runB, est, mem>>

\* pool.map has every task's outcome
MapReady == \A i \in 1..Len(pool_tasks) : Finished(i)
MapFailed == \E i \in 1..Len(pool_tasks) : pool_tasks[i].st = "failed"

\* variant: the exception is raised as soon as one task has failed
MapRaiseReady_FailFast == MapFailed

\* pool.map raises the first exception of the batch, once every task of the
\* batch is done
MapRaiseReady == MapReady /\ MapFailed

\* results = list(pool.map(...)), in the order of the inputs
Results == [i \in 1..Len(pool_tasks) |-> pool_tasks[i].result]

\* variant: failed tasks are dropped from the batch and the step goes on
MapRaise_Skip ==
    /\ pc = "map"
    /\ MapRaiseReady
    /\ pool_tasks' = SelectSeq(pool_tasks, LAMBDA task : task.st # "failed")
    /\ UNCHANGED <<args, state, locals, pool_func, pc, exc, runB, est, mem>>

\* pool.map re-raises a task's exception in the controller; leaving the
\* with block terminates the pool
MapRaise ==
    /\ pc = "map"
    /\ MapRaiseReady
    /\ pc' = "error"
    /\ exc' = "worker exception"
    /\ pool_func' = "none"
    /\ pool_tasks' = <<>>
    /\ UNCHANGED <<args, state, locals, runB, est, mem>>

\* checkpoint branch: results of pool.map, the loop over them, the ratio
\* estimator and the append to the quantum trace
Collect_QAEE ==
    /\ pc = "map"
    /\ pool_func = "multi_run_wrapper_QAEE"
    /\ MapReady
    /\ ~MapFailed
    /\ ~PyDivideRaises(weights)
    /\ cenergy_list' = CEnergyList(Results)
    /\ weight_list' = KeepWeights(Results)
    /\ walker_list' = KeepWalkers(Results)
    /\ qE_list' = Append(qE_list, QuantumEnergy(weights, Results))
    /\ pool_func' = "none"
    /\ pool_tasks' = <<>>
    /\ pc' = "avg"
    /\ UNCHANGED <<args, cE_list, E_shift, walkers, weights, t_step, inputs, exc, runB, est, mem>>

\* checkpoint branch with no walker: numerator / denominator is 0j / 0j of
\* Python complex numbers, which raises ZeroDivisionError
Collect_QAEE_Raise ==
    /\ pc = "map"
    /\ pool_func = "multi_run_wrapper_QAEE"
    /\ MapReady
    /\ ~MapFailed
    /\ PyDivideRaises(weights)
    /\ pool_func' = "none"
    /\ pool_tasks' = <<>>
    /\ pc' = "error"
    /\ exc' = "ZeroDivisionError"
    /\ UNCHANGED <<args, state, locals, runB, est, mem>>

\* classical branch: results of pool.map and the loop over them
Collect_classical ==
    /\ pc = "map"
    /\ pool_func = "multi_run_wrapper"
    /\ MapReady
    /\ ~MapFailed
    /\ cenergy_list' = CEnergyList(Results)
    /\ weight_list' = KeepWeights(Results)
    /\ walker_list' = KeepWalkers(Results)
    /\ pool_func' = "none"
    /\ pool_tasks' = <<>>
    /\ pc' = "avg"
    /\ UNCHANGED <<args, state, inputs, exc, runB, est, mem>>

\* variant: the step counter advances by two
Average_Skip ==
    /\ pc = "avg"
    /\ ~NpAverageRaises(cenergy_list, weights)
    /\ LET E == NpAverage(cenergy_list, weights)
       IN  /\ cE_list' = Append(cE_list, E)
           /\ E_shift' = E
    /\ t_step' = t_step + 2
    /\ walkers' = walker_list
    /\ weights' = weight_list
    /\ pc' = "loop"
    /\ UNCHANGED <<args, qE_list, locals, pool, exc, runB, est, mem>>

\* the tail of the step: classical ensemble energy, shift, step counter,
\* population
Average ==
    /\ pc = "avg"
    /\ ~NpAverageRaises(cenergy_list, weights)
    /\ LET E == NpAverage(cenergy_list, weights)
       IN  /\ cE_list' = Append(cE_list, E)
           /\ E_shift' = E
    /\ t_step' = t_step + 1
    /\ walkers' = walker_list
    /\ weights' = weight_list
    /\ pc' = "loop"
    /\ UNCHANGED <<args, qE_list, locals, pool, exc, runB, est, mem>>

\* np.average raises ZeroDivisionError when the weights sum to zero
Average_Raise ==
    /\ pc = "avg"
    /\ NpAverageRaises(cenergy_list, weights)
    /\ pc' = "error"
    /\ exc' = "ZeroDivisionError"
    /\ UNCHANGED <<args, state, locals, pool, runB, est, mem>>

\* the loop test fails: return total_time, cE_list, qE_list
Return ==
    /\ pc = "loop"
    /\ ~LoopTest(t_step, num_steps)
    /\ pc' = "done"
    /\ UNCHANGED <<args, state, locals, pool, exc, runB, est, mem>>

Next ==
    \/ Dispatch
    \/ \E i \in 1..Len(pool_tasks) : TaskStart(i)
    \/ \E i \in 1..Len(pool_tasks) : TaskReturn(i)
    \/ \E i \in 1..Len(pool_tasks) : TaskFail(i)
    \/ MapRaise
    \/ Collect_QAEE
    \/ Collect_QAEE_Raise
    \/ Collect_classical
    \/ Average
    \/ Average_Raise
    \/ Return

Spec == Init /\ [][Next]_vars

\* ------------------------------------------------- two runs side by side
\* The run held in the variables and a second run of the same arguments held
\* in runB go through the loop together.  Both draw the same auxiliary
\* fields: PropagateWalker gives the same new walker to the i-th call of both
\* runs when they pass it the same walker.  The device answers each run
\* independently of the other.

\* the run held in the variables, as a record
RunA ==
    [ cE_list |-> cE_list, qE_list |-> qE_list, E_shift |-> E_shift,
      walkers |-> walkers, weights |-> weights, t_step |-> t_step,
      weight_list |-> weight_list, walker_list |-> walker_list,
      cenergy_list |-> cenergy_list, inputs |-> inputs, pc |-> pc, exc |-> exc ]

\* one pass of the loop body on the run r whose pool batch completes, the
\* i-th call propagating its walker to nw[i] and reading dv[i] from the device
StepRun(r, nw, dv) ==
    LET inp  == Inputs(r.walkers, r.weights, r.E_shift)
        qaee == IsCheckpoint(r.t_step, dtau, q_total_time)
        res  == [i \in 1..Len(inp) |->
                    IF qaee THEN ImagTimePropagator_QAEE(inp[i], nw[i], dv[i])
                    ELSE ImagTimePropagator(inp[i], nw[i])]
        dispatched == [r EXCEPT !.weight_list = <<>>, !.walker_list = <<>>,
                                !.cenergy_list = <<>>, !.inputs = inp]
        collected  == [dispatched EXCEPT
                          !.cenergy_list = CEnergyList(res),
                          !.weight_list = KeepWeights(res),
                          !.walker_list = KeepWalkers(res),
                          !.qE_list = IF qaee
                                      THEN Append(@, QuantumEnergy(r.weights, res))
                                      ELSE @]
    IN  IF qaee /\ PyDivideRaises(r.weights)
        THEN [dispatched EXCEPT !.pc = "error", !.exc = "ZeroDivisionError"]
        ELSE IF NpAverageRaises(collected.cenergy_list, r.weights)
        THEN [collected EXCEPT !.pc = "error", !.exc = "ZeroDivisionError"]
        ELSE LET E == NpAverage(collected.cenergy_list, r.weights)
             IN  [collected EXCEPT !.cE_list = Append(@, E),
                                   !.E_shift = E,
                                   !.t_step = @ + 1,
                                   !.walkers = collected.walker_list,
                                   !.weights = collected.weight_list]

\* the pool's size plays no part when every batch completes
InitNI ==
    /\ InitRun
    /\ max_pool = 1
    /\ num_walkers * (num_steps + 1) <= MaxWorkNI
    /\ runB = RunA
    /\ est = <<>>
    /\ mem = <<>>

\* what the device may return to the calls of a step of n walkers: nothing
\* is read from it in a classical step
DeviceDraws(qaee, n) ==
    IF qaee THEN [1..n -> DeviceOutputs]
    ELSE {[i \in 1..n |-> [amplitude |-> <<0, 0>>, local_energy |-> <<0, 0>>]]}

NIStep ==
    /\ pc = "loop"
    /\ runB.pc = "loop"
    /\ LoopTest(t_step, num_steps)
    /\ LoopTest(runB.t_step, num_steps)
    /\ \E nw \in [1..Len(weights) -> Walkers],
          other \in (IF runB.walkers = walkers THEN {trial} ELSE Walkers),
          dvA \in DeviceDraws(IsCheckpoint(t_step, dtau, q_total_time), Len(weights)),
          dvB \in DeviceDraws(IsCheckpoint(runB.t_step, dtau, q_total_time),
                              Len(runB.weights)) :
          LET nwB == [i \in 1..Len(runB.weights) |->
                         IF i <= Len(walkers) /\ runB.walkers[i] = walkers[i]
                         THEN nw[i] ELSE other]
          IN
          \E a \in {StepRun(RunA, nw, dvA)}, b \in {StepRun(runB, nwB, dvB)} :
              /\ cE_list' = a.cE_list
              /\ qE_list' = a.qE_list
              /\ E_shift' = a.E_shift
              /\ walkers' = a.walkers
              /\ weights' = a.weights
              /\ t_step' = a.t_step
              /\ weight_list' = a.weight_list
              /\ walker_list' = a.walker_list
              /\ cenergy_list' = a.cenergy_list
              /\ inputs' = a.inputs
              /\ pc' = a.pc
              /\ exc' = a.exc
              /\ runB' = b
    /\ UNCHANGED <<args, pool, est, mem>>

NIReturn ==
    /\ pc = "loop"
    /\ runB.pc = "loop"
    /\ ~LoopTest(t_step, num_steps)
    /\ ~LoopTest(runB.t_step, num_steps)
    /\ pc' = "done"
    /\ runB' = [runB EXCEPT !.pc = "done"]
    /\ UNCHANGED <<args, state, locals, pool, exc, est, mem>>

NextNI ==
    \/ NIStep
    \/ NIReturn

SpecNI == InitNI /\ [][NextNI]_vars

\* --------------------------------------------------- estimator circuits
\* A circuit is the sequence of gates a quantum function queues.  A gate is
\* its name, its wires, its angle (0 for a gate without one) and whether it
\* is queued as an adjoint.  A matrix handed to givens_decomposition_square
\* is abstracted to what that function returns for it: the layers of Givens
\* rotations (i, j, theta, varphi) and the angles np.angle(diagonal[i]).

Gate(name, wires, param) ==
    [name |-> name, wires |-> wires, param |-> param, adj |-> FALSE]

AdjointGate(g) == [g EXCEPT !.adj = ~g.adj]

\* qml.adjoint(fn)(...): the adjoints of the gates fn queues, last one first
Adjoint(circuit) ==
    [k \in 1..Len(circuit) |-> AdjointGate(circuit[Len(circuit) + 1 - k])]

\* list(reversed(decomposition))
Reversed(seq) == [k \in 1..Len(seq) |-> seq[Len(seq) + 1 - k]]

RECURSIVE Flatten(_)
Flatten(circuits) ==
    IF Len(circuits) = 0 THEN <<>> ELSE Head(circuits) \o Flatten(Tail(circuits))

givens_block_circuit(givens) ==
    LET i      == givens[1]
        j      == givens[2]
        theta  == givens[3]
        varphi == givens[4]
    IN  << Gate("RZ", <<j>>, -varphi),
           Gate("CNOT", <<j, i>>, 0),
           Gate("RY", <<j>>, theta),
           Gate("CNOT", <<i, j>>, 0),
           Gate("RY", <<j>>, -theta),
           Gate("CNOT", <<i, j>>, 0),
           Gate("CNOT", <<j, i>>, 0) >>

prepare_slater_circuit(circuit_description) ==
    Flatten([k \in 1..Len(circuit_description) |->
        Flatten([m \in 1..Len(circuit_description[k]) |->
            Adjoint(givens_block_circuit(circuit_description[k][m]))])])

\* for i in range(len(diagonal)): qml.RZ(np.angle(diagonal[i]), wires=i)
PhaseGates(diagonal) ==
    [k \in 1..Len(diagonal) |-> Gate("RZ", <<k - 1>>, diagonal[k])]

\* for i in range(1, num_particles): qml.CNOT(wires=[0, i])
EntangleGates(num_particles) ==
    [k \in 1..(num_particles - 1) |-> Gate("CNOT", <<0, k>>, 0)]

circuit_first_half(Q) ==
    <<Gate("Hadamard", <<0>>, 0)>>
    \o EntangleGates(Q.num_particles)
    \o PhaseGates(Q.diagonal)
    \o prepare_slater_circuit(Reversed(Q.decomposition))

circuit_second_half_real(Q, VT) ==
    Adjoint(VT)
    \o Reversed(EntangleGates(Q.num_particles))
    \o <<Gate("Hadamard", <<0>>, 0)>>

circuit_second_half_imag(Q, VT) ==
    Adjoint(VT)
    \o Reversed(EntangleGates(Q.num_particles))
    \o <<Gate("S", <<0>>, 0), Gate("S", <<0>>, 0), Gate("S", <<0>>, 0),
         Gate("Hadamard", <<0>>, 0)>>

amplitude_real(Q, VT) == circuit_first_half(Q) \o circuit_second_half_real(Q, VT)

amplitude_imag(Q, VT) == circuit_first_half(Q) \o circuit_second_half_imag(Q, VT)

\* variant: nothing is queued for a matrix without rotations and phases
U_circuit_SkipIdentity(U) ==
    IF U.decomposition = <<>> /\ \A k \in 1..Len(U.diagonal) : U.diagonal[k] = 0
    THEN <<>>
    ELSE PhaseGates(U.diagonal)
         \o (IF Reversed(U.decomposition) # <<>>
             THEN prepare_slater_circuit(Reversed(U.decomposition)) ELSE <<>>)

\* the phase gates of the diagonal, one per wire whatever their angle, then
\* the Givens rotations if there are any
U_circuit(U) ==
    PhaseGates(U.diagonal)
    \o (IF Reversed(U.decomposition) # <<>>
        THEN prepare_slater_circuit(Reversed(U.decomposition)) ELSE <<>>)

\* for i in pauli: qml.PauliZ(wires=i)
PauliGates(pauli) == [k \in 1..Len(pauli) |-> Gate("PauliZ", <<pauli[k]>>, 0)]

pauli_real(Q, VT, U, pauli) ==
    circuit_first_half(Q)
    \o U_circuit(U)
    \o PauliGates(pauli)
    \o Adjoint(U_circuit(U))
    \o circuit_second_half_real(Q, VT)

pauli_imag(Q, VT, U, pauli) ==
    circuit_first_half(Q)
    \o U_circuit(U)
    \o PauliGates(pauli)
    \o Adjoint(U_circuit(U))
    \o circuit_second_half_imag(Q, VT)

\* the trial circuit V_T
V_T ==
    <<Gate("RX", <<0>>, HalfPi)>>
    \o [k \in 1..(NumQubits - 1) |-> Gate("Hadamard", <<k>>, 0)]
    \o [k \in 1..(NumQubits - 1) |-> Gate("CNOT", <<k - 1, k>>, 0)]
    \o <<Gate("RZ", <<NumQubits - 1>>, 12)>>
    \o Reversed([k \in 1..(NumQubits - 1) |-> Gate("CNOT", <<k - 1, k>>, 0)])
    \o <<Gate("RX", <<0>>, -HalfPi)>>
    \o [k \in 1..(NumQubits - 1) |-> Gate("Hadamard", <<k>>, 0)]

\* The device is exact: what a qnode returns is determined by the unitary its
\* circuit implements.  A rotation by the angle 0 is the identity and a gate
\* followed by its adjoint cancels; the circuit reduced by these two rules
\* stands for the unitary.
IsIdentityGate(g) == g.name \in {"RX", "RY", "RZ"} /\ g.param = 0

RECURSIVE Reduce(_, _)
Reduce(done, rest) ==
    IF Len(rest) = 0 THEN done
    ELSE LET g == Head(rest)
         IN  IF IsIdentityGate(g) THEN Reduce(done, Tail(rest))
             ELSE IF Len(done) > 0 /\ done[Len(done)] = AdjointGate(g)
                  THEN Reduce(SubSeq(done, 1, Len(done) - 1), Tail(rest))
                  ELSE Reduce(Append(done, g), Tail(rest))

\* probs_values[0] - probs_values[int(2**num_qubits/2)] of the qnode running
\* the circuit: one value per unitary
ProbsDifference(circuit) == Reduce(<<>>, circuit)

amplitude_estimate(Q, VT) ==
    [ real |-> ProbsDifference(amplitude_real(Q, VT)),
      imag |-> ProbsDifference(amplitude_imag(Q, VT)) ]

pauli_estimate(Q, VT, U, pauli) ==
    [ real |-> ProbsDifference(pauli_real(Q, VT, U, pauli)),
      imag |-> ProbsDifference(pauli_imag(Q, VT, U, pauli)) ]

\* np.identity(num_qubits), as givens_decomposition_square returns it: no
\* rotation, a diagonal of ones
Identity == [decomposition |-> <<>>, diagonal |-> [k \in 1..NumQubits |-> 0]]

Unitaries ==
    { Identity,
      [decomposition |-> <<>>, diagonal |-> <<0, Pi, 0, 0>>],
      [decomposition |-> << << <<0, 1, 30, 0>> >> >>, diagonal |-> <<0, 0, 0, 0>>],
      [decomposition |-> << << <<1, 2, 50, Pi>> >>, << <<0, 1, 30, 0>> >> >>,
       diagonal |-> <<0, 0, Pi, 0>>] }

\* walker states, by particle number and the decomposition of their
\* completion W
WalkerStates ==
    { [num_particles |-> 2, decomposition |-> <<>>, diagonal |-> <<0, 0, 0, 0>>],
      [num_particles |-> 2, decomposition |-> << << <<1, 2, 50, 0>> >> >>,
       diagonal |-> <<0, 0, Pi, 0>>],
      [num_particles |-> 1,
       decomposition |-> << << <<0, 1, 30, Pi>> >>, << <<2, 3, 50, 0>> >> >>,
       diagonal |-> <<Pi, 0, 0, 0>>] }

\* the lists of Z positions local_energy_quantum and qExpect_OneBody pass,
\* and the empty list
PauliLists == {<<>>, <<0>>, <<1>>, <<0, 1>>}

\* One device session on a walker: amplitude_estimate, then pauli_estimate,
\* the order of ImagTimePropagator_QAEE (amplitude_estimate, then
\* local_energy_quantum's calls of pauli_estimate).
InitEst ==
    /\ InitRun
    /\ num_walkers = 1
    /\ num_steps = 1
    /\ max_pool = 1
    /\ Ehf = 0
    /\ dtau = 1000
    /\ q_total_time = {}
    /\ runB = <<>>
    /\ mem = <<>>
    /\ \E Q \in WalkerStates, U \in Unitaries, pauli \in PauliLists :
          est = [ Q |-> Q, U |-> U, pauli |-> pauli, st |-> "amplitude_estimate",
                  amplitude |-> [real |-> <<>>, imag |-> <<>>],
                  expectation |-> [real |-> <<>>, imag |-> <<>>] ]

AmplitudeEstimate ==
    /\ est.st = "amplitude_estimate"
    /\ est' = [est EXCEPT !.amplitude = amplitude_estimate(est.Q, V_T),
                          !.st = "pauli_estimate"]
    /\ UNCHANGED <<args, state, locals, pool, pc, exc, runB, mem>>

PauliEstimate ==
    /\ est.st = "pauli_estimate"
    /\ est' = [est EXCEPT !.expectation = pauli_estimate(est.Q, V_T, est.U, est.pauli),
                          !.st = "done"]
    /\ UNCHANGED <<args, state, locals, pool, pc, exc, runB, mem>>

NextEst ==
    \/ AmplitudeEstimate
    \/ PauliEstimate

SpecEst == InitEst /\ [][NextEst]_vars

\* ------------------------------------------------- arrays and references
\* The loop of qAFQMC with its arrays as objects: heap[id] is the content of
\* the array id of the controller process; trial and the entries of walkers
\* are references.  [trial]*num_walkers is num_walkers references to the one
\* trial array.  A step's batch completes; which results pass the weight
\* test is left open.

\* variant: the workers are handed the controller's own arrays
ArgumentObject_Shared(id) == id

\* pool.map pickles every input tuple for its worker process: the arrays a
\* call holds are copies, no array of the controller (0)
ArgumentObject(id) == 0

\* The arrays of the controller once the calls of a batch are over.  G_pq,
\* local_energy and PropagateWalker come from afqmc.classical_afqmc; a call
\* may leave its arguments alone or write its new walker nw[i] into the array
\* it holds as walker or as trial (written[i]).
HeapAfterCalls(heap, trial_id, walker_ids, nw, written) ==
    [id \in 1..Len(heap) |->
        LET hits == {i \in 1..Len(walker_ids) :
                       \/ written[i] = "walker" /\ ArgumentObject(walker_ids[i]) = id
                       \/ written[i] = "trial" /\ ArgumentObject(trial_id) = id}
        IN  IF hits = {} THEN heap[id]
            ELSE nw[CHOOSE i \in hits : \A j \in hits : i >= j]]

\* the entries of seq at the places in kept, in order
RECURSIVE Subsequence(_, _, _)
Subsequence(seq, kept, k) ==
    IF k > Len(seq) THEN <<>>
    ELSE (IF k \in kept THEN <<seq[k]>> ELSE <<>>) \o Subsequence(seq, kept, k + 1)

InitMem ==
    /\ InitRun
    /\ max_pool = 1
    /\ Ehf = 0
    /\ dtau = 1000
    /\ q_total_time = {}
    /\ runB = <<>>
    /\ est = <<>>
    /\ mem = [ heap |-> <<trial>>, trial |-> 1,
               walkers |-> [i \in 1..num_walkers |-> 1],
               t_step |-> 0, results |-> <<>>, pc |-> "loop" ]

\* inputs built from trial and walkers[i], pool.map over them
MemMap ==
    /\ mem.pc = "loop"
    /\ LoopTest(mem.t_step, num_steps)
    /\ Len(mem.walkers) > 0
    /\ \E nw \in [1..Len(mem.walkers) -> Walkers],
          written \in [1..Len(mem.walkers) -> {"none", "walker", "trial"}] :
          mem' = [mem EXCEPT
                     !.heap = HeapAfterCalls(mem.heap, mem.trial, mem.walkers, nw, written),
                     !.results = [i \in 1..Len(mem.walkers) |-> nw[i]],
                     !.pc = "collect"]
    /\ UNCHANGED <<args, state, locals, pool, pc, exc, runB, est>>

\* the loop over results and the end of the step: the new walkers that pass
\* the weight test are new arrays of the controller and become the
\* population; the arrays of the old population are dropped
MemCollect ==
    /\ mem.pc = "collect"
    /\ \E kept \in SUBSET (1..Len(mem.results)) :
          LET walker_list_ == Subsequence(mem.results, kept, 1)
          IN  mem' = [mem EXCEPT
                         !.heap = <<mem.heap[mem.trial]>> \o walker_list_,
                         !.walkers = [i \in 1..Len(walker_list_) |-> i + 1],
                         !.t_step = mem.t_step + 1,
                         !.results = <<>>,
                         !.pc = "loop"]
    /\ UNCHANGED <<args, state, locals, pool, pc, exc, runB, est>>

\* a step entered without walkers raises ZeroDivisionError
MemRaise ==
    /\ mem.pc = "loop"
    /\ LoopTest(mem.t_step, num_steps)
    /\ Len(mem.walkers) = 0
    /\ mem' = [mem EXCEPT !.pc = "error"]
    /\ UNCHANGED <<args, state, locals, pool, pc, exc, runB, est>>

MemReturn ==
    /\ mem.pc = "loop"
    /\ ~LoopTest(mem.t_step, num_steps)
    /\ mem' = [mem EXCEPT !.pc = "done"]
    /\ UNCHANGED <<args, state, locals, pool, pc, exc, runB, est>>

NextMem ==
    \/ MemMap
    \/ MemCollect
    \/ MemRaise
    \/ MemReturn

SpecMem == InitMem /\ [][NextMem]_vars

\* ================================================================= claims
RECURSIVE SumTo(_, _)
SumTo(f, n) == IF n = 0 THEN 0 ELSE f[n] + SumTo(f, n - 1)

\* the steps before step n whose rounded time is a checkpoint
CheckpointsBefore(n) ==
    Cardinality({k \in 0..(n - 1) : Round4(k * dtau) \in q_total_time})

AllFinite(trace) == \A k \in 1..Len(trace) : trace[k][2] > 0

\* the shift in force during step k
ShiftOfStep(k) == IF k = 0 THEN <<Ehf, 1>> ELSE cE_list[k]

SurvivorsOf(rs) == SelectSeq(rs, LAMBDA r : r.new_weight > Threshold)
DroppedOf(rs) == Cardinality({i \in 1..Len(rs) : rs[i].new_weight <= Threshold})

\* C1: in either branch the lists built from a step's results hold exactly
\* the results whose new weight is above the threshold, walker and weight of
\* the same result at the same place and in dispatch order; they become the
\* next population, whose size is the old size less the number of results at
\* or below the threshold, and the population never grows.
C1_SurvivorsOnly ==
    [][ /\ (pc = "map" /\ pc' = "avg") =>
             /\ Len(Results) = Len(weights)
             /\ weight_list' = [k \in 1..Len(SurvivorsOf(Results)) |->
                                   SurvivorsOf(Results)[k].new_weight]
             /\ walker_list' = [k \in 1..Len(SurvivorsOf(Results)) |->
                                   SurvivorsOf(Results)[k].new_walker]
             /\ Len(weight_list') = Len(weights) - DroppedOf(Results)
        /\ (pc = "avg" /\ pc' = "loop") =>
             /\ walkers' = walker_list
             /\ weights' = weight_list
        /\ Len(weights') <= Len(weights)
        /\ Len(walkers') = Len(weights')
        /\ \A i \in 1..Len(weights') : weights'[i] > Threshold
      ]_vars

\* a step of two walkers has left one of them in the population
C1_Witness ==
    /\ pc = "loop"
    /\ t_step >= 1
    /\ Len(inputs) = 2
    /\ Len(weights) = 1

\* the mean of the local energies of the walkers in inputs, weighted by the
\* weights they were dispatched with, is e
PreStepMeanIs(e) ==
    LET n  == Len(inputs)
        w  == [i \in 1..n |-> inputs[i].weight]
        we == [i \in 1..n |-> inputs[i].weight * LocalEnergy(inputs[i].walker)]
    IN  /\ e[2] > 0
        /\ e[1] * SumTo(w, n) = e[2] * SumTo(we, n)

\* C2: while step t is in progress the shift, and the shift in every input
\* tuple of the step, is Ehf for t = 0 and the classical energy recorded for
\* step t-1 otherwise; that energy is the mean of the local energies of all
\* walkers dispatched at step t-1 weighted by their pre-step weights; the
\* shift takes its new value only at the end of the step.
C2_EnergyShift ==
    /\ pc \in {"map", "avg"} =>
          /\ Len(cE_list) = t_step
          /\ E_shift = ShiftOfStep(t_step)
          /\ \A i \in 1..Len(inputs) : inputs[i].E_shift = ShiftOfStep(t_step)
    /\ (pc \in {"loop", "done"} /\ t_step = 0) => E_shift = <<Ehf, 1>>
    /\ (pc \in {"loop", "done"} /\ t_step >= 1) =>
          /\ Len(cE_list) = t_step
          /\ E_shift = cE_list[t_step]
          /\ PreStepMeanIs(E_shift)

\* a step of two walkers of different energies and different pre-step
\* weights, one of them dropped at its end, has set the shift
C2_Witness ==
    /\ pc = "loop"
    /\ t_step >= 2
    /\ Len(inputs) = 2
    /\ inputs[1].weight # inputs[2].weight
    /\ LocalEnergy(inputs[1].walker) # LocalEnergy(inputs[2].walker)
    /\ Len(weights) = 1

\* C3: a step is handed to the QAEE driver, one call per live walker, exactly
\* when its time rounded to 4 decimals is a checkpoint, and to the classical
\* driver otherwise; the quantum trace has one entry per completed checkpoint
\* step; with dtau = 0.01 and checkpoints {0.01, 0.03} the entries come from
\* steps 1 and 3 and the returned trace has 2 of them.
C3_CheckpointSteps ==
    /\ pc = "map" =>
          /\ pool_func = "multi_run_wrapper_QAEE"
                <=> Round4(t_step * dtau) \in q_total_time
          /\ pool_func = "multi_run_wrapper"
                <=> Round4(t_step * dtau) \notin q_total_time
          /\ Len(pool_tasks) = Len(weights)
          /\ Len(qE_list) = CheckpointsBefore(t_step)
    /\ pc = "avg" => Len(qE_list) = CheckpointsBefore(t_step + 1)
    /\ pc \in {"loop", "done"} => Len(qE_list) = CheckpointsBefore(t_step)
    /\ (dtau = 1000 /\ q_total_time = {1000, 3000} /\ pc \in {"loop", "done"}) =>
          Len(qE_list) = (IF t_step <= 1 THEN 0 ELSE IF t_step <= 3 THEN 1 ELSE 2)

\* the run with dtau = 0.01 and checkpoints {0.01, 0.03} has returned
C3_Witness ==
    /\ pc = "done"
    /\ dtau = 1000
    /\ q_total_time = {1000, 3000}
    /\ num_steps >= 3
    /\ Len(qE_list) = 2

C5_Original == pc = "error" => exc = "worker exception"

C5_StepOrder ==
    /\ t_step \in 0..(num_steps + 1)
    /\ pc \in {"map", "avg"} => t_step <= num_steps
    /\ pc \in {"loop", "map", "done"} => Len(cE_list) = t_step
    /\ pc = "done" => t_step = num_steps + 1
    /\ (pc = "loop" /\ t_step > num_steps) => (ENABLED Return /\ ~ENABLED Dispatch)
    /\ (pc = "loop" /\ t_step <= num_steps) => (ENABLED Dispatch /\ ~ENABLED Return)
    /\ pc = "error" => (exc = "worker exception" \/ Len(weights) = 0)

\* C5: the steps run are t_step = 0, 1, ..., each once and in order (the
\* classical trace has one entry per completed step), t_step moves only from
\* the tail of a step and by exactly 1, no step runs with t_step > num_steps,
\* the run returns as soon as t_step = num_steps + 1, and it stops early only
\* when a task of a batch failed or the population had become empty.
C5_StepsInOrder ==
    [][ /\ C5_StepOrder'
        /\ \/ t_step' = t_step
           \/ (t_step' = t_step + 1 /\ pc = "avg" /\ pc' = "loop")
      ]_vars

\* a run of several steps has gone through all of them and returned
C5_Witness ==
    /\ pc = "done"
    /\ num_steps >= 3
    /\ t_step = num_steps + 1
    /\ Len(weights) >= 1

\* C6: while a task of the step's batch has not come back, the controller
\* stays inside pool.map: the shift, the population, both traces, the step
\* counter, the step's lists and inputs keep their values and no new batch is
\* dispatched, whatever the order in which the tasks run.
C6_Barrier ==
    [][ (pc = "map" /\ ~MapReady) =>
            /\ pc' = "map"
            /\ pool_func' = pool_func
            /\ Len(pool_tasks') = Len(pool_tasks)
            /\ UNCHANGED <<state, locals>>
      ]_vars

\* one task of a batch of two has returned and the other is still running
C6_Witness ==
    /\ pc = "map"
    /\ t_step >= 1
    /\ Len(pool_tasks) = 2
    /\ \E i, j \in 1..2 : /\ pool_tasks[i].st = "returned"
                          /\ pool_tasks[j].st = "running"

\* C7: a step entered with an empty population ends in ZeroDivisionError, in
\* the checkpoint branch and in the classical branch, leaving both traces,
\* the shift and the step counter as they were; every recorded classical
\* energy and the shift are finite.
C7_EmptyPopulationIsFatal ==
    [][ /\ E_shift'[2] > 0
        /\ AllFinite(cE_list')
        /\ (pc \in {"map", "avg"} /\ Len(weights) = 0) =>
              /\ UNCHANGED state
              /\ pc' \in {"avg", "error"}
              /\ pc' = "error" => exc' = "ZeroDivisionError"
              /\ pc = "avg" => pc' = "error"
              /\ pool_func = "multi_run_wrapper_QAEE" => pc' = "error"
      ]_vars

\* the population died out before the last step and the run has stopped
C7_Witness ==
    /\ pc = "error"
    /\ exc = "ZeroDivisionError"
    /\ Len(weights) = 0
    /\ t_step >= 1
    /\ t_step <= num_steps

\* C8: once a task of the batch has failed the step cannot complete: the
\* failed task stays failed (it is not run again), the traces, the shift, the
\* population and the step counter keep their values, and when the batch is
\* done the run stops with the worker's exception; nothing follows.
C8_TaskFailureAborts ==
    [][ /\ pc # "error"
        /\ (pc = "map" /\ MapFailed) =>
              /\ UNCHANGED <<state, locals>>
              /\ pc' \in {"map", "error"}
              /\ MapReady => (pc' = "error" /\ exc' = "worker exception")
              /\ pc' = "map" =>
                    \A i \in 1..Len(pool_tasks) :
                        pool_tasks[i].st = "failed" =>
                            (Len(pool_tasks') = Len(pool_tasks)
                             /\ pool_tasks'[i].st = "failed")
        /\ (pc' = "error" /\ exc' = "worker exception") =>
              /\ Len(cE_list') = t_step'
              /\ Len(qE_list') = CheckpointsBefore(t_step')
      ]_vars

\* a batch of two in which a task failed has stopped the run
C8_Witness ==
    /\ pc = "error"
    /\ exc = "worker exception"
    /\ t_step >= 1
    /\ Len(inputs) = 2

\* C9: no non-finite value is ever appended to the quantum energy trace.
C9_QuantumTraceFinite == AllFinite(qE_list)

\* C10: two runs with the same arguments and the same auxiliary-field draws,
\* whatever the device returns to each, agree at every step on the per-walker
\* classical local energies, the new walkers and weights, the population, the
\* shift, the classical trace, the step counter and the outcome; only the
\* values in the quantum trace may differ.
C10_DeviceIndependent ==
    /\ runB.cenergy_list = cenergy_list
    /\ runB.walker_list = walker_list
    /\ runB.weight_list = weight_list
    /\ runB.walkers = walkers
    /\ runB.weights = weights
    /\ runB.E_shift = E_shift
    /\ runB.cE_list = cE_list
    /\ runB.t_step = t_step
    /\ runB.pc = pc
    /\ runB.exc = exc
    /\ Len(runB.qE_list) = Len(qE_list)

\* after a checkpoint step the two runs hold different quantum traces
C10_Witness ==
    /\ pc = "loop"
    /\ t_step >= 2
    /\ Len(weights) >= 1
    /\ Len(qE_list) >= 1
    /\ runB.qE_list # qE_list

\* the phase of the overlap has turned by more than 90 degrees
PhaseRotated(new_ovlp, ovlp) == CDiv(new_ovlp, ovlp)[1] < 0

\* the inputs of a call of qImagTimePropagator with a non-negative weight
QInputs ==
    [walker : Walkers, weight : 0..MaxWeight, ovlp : QOverlaps,
     E_shift : {<<e, 1>> : e \in HFEnergies}]
QDeviceOutputs == [amplitude : QOverlaps, local_energy : QLocalEnergies]

\* on every input of non-negative weight qImagTimePropagator returns a weight
\* that is NaN or a real number not below 0, and exactly 0 when the phase of
\* the overlap has turned by more than 90 degrees
qWeightUpdateNonNegative ==
    \A inp \in QInputs, new_walker \in Walkers, dev \in QDeviceOutputs :
        LET w == qImagTimePropagator(inp, new_walker, dev).new_weight
        IN  /\ w[1] >= 0
            /\ w[2] \in {0, 1}
            /\ (inp.ovlp # <<0, 0>> /\ PhaseRotated(dev.amplitude, inp.ovlp))
                  => w = <<0, 1>>

\* C11: every weight of the population is 1.0 before the first step and above
\* the threshold after any step, hence never negative; every new weight a
\* step driver returns from a non-negative weight is a real number that is
\* not negative (ImagTimePropagator_QAEE and the classical driver in the
\* run, qImagTimePropagator on every input), and is exactly 0 when the phase
\* of the overlap has turned by more than 90 degrees; the walkers with such
\* a result are not in the lists that become the next population.
C11_WeightsNonNegative ==
    [][ /\ \A i \in 1..Len(weights') :
             /\ weights'[i] >= 0
             /\ t_step' = 0 => weights'[i] = UnitWeight
             /\ t_step' > 0 => weights'[i] > Threshold
        /\ \A i \in 1..Len(pool_tasks') :
             pool_tasks'[i].st = "returned" =>
                LET r == pool_tasks'[i].result
                IN  /\ r.new_weight >= 0
                    /\ PhaseRotated(Overlap(r.new_walker), Overlap(inputs'[i].walker))
                          => r.new_weight = 0
        /\ (pc = "map" /\ pc' = "avg") =>
             Len(weight_list') <= Len(Results) - Cardinality(
                 {i \in 1..Len(Results) :
                     PhaseRotated(Overlap(Results[i].new_walker), Overlap(inputs[i].walker))})
        /\ (pc = "avg" /\ pc' = "loop") => weights' = weight_list
        /\ qWeightUpdateNonNegative
      ]_vars

\* a walker of positive weight whose overlap changed sign in the step has
\* come back from its driver
C11_Witness ==
    /\ pc = "map"
    /\ t_step >= 1
    /\ \E i \in 1..Len(pool_tasks) :
          /\ pool_tasks[i].st = "returned"
          /\ inputs[i].weight > Threshold
          /\ PhaseRotated(Overlap(pool_tasks[i].result.new_walker), Overlap(inputs[i].walker))
          /\ pool_tasks[i].result.new_weight = 0

\* the weights ws, each multiplied by c
Scaled(c, ws) == [i \in 1..Len(ws) |-> c * ws[i]]

\* C12: the quantum energy a checkpoint step appends, computed from the
\* results of all walkers dispatched at the step and their pre-step weights,
\* is the value the ratio estimator gives when every one of these weights is
\* multiplied by the same positive constant.
C12_ScaleInvariant ==
    [][ (pc = "map" /\ pool_func = "multi_run_wrapper_QAEE" /\ pc' = "avg") =>
           /\ Len(Results) = Len(weights)
           /\ \A c \in 1..MaxScale :
                 qE_list' = Append(qE_list, QuantumEnergy(Scaled(c, weights), Results))
      ]_vars

\* a checkpoint step of two walkers of different pre-step weights has
\* appended a finite, non-zero quantum energy
C12_Witness ==
    /\ pc = "avg"
    /\ IsCheckpoint(t_step, dtau, q_total_time)
    /\ Len(weights) = 2
    /\ weights[1] # weights[2]
    /\ Len(qE_list) >= 1
    /\ IsFinite(qE_list[Len(qE_list)])
    /\ qE_list[Len(qE_list)][1] # 0

\* a < b for floats <<p, q>>, q > 0
RatLess(a, b) == a[1] * b[2] < b[1] * a[2]

\* C13: the time axis a run returns has num_steps entries, starts at dtau,
\* is strictly increasing and ends at dtau*num_steps.
C13_TimeAxisIncreasing ==
    pc = "done" =>
       /\ Len(total_time) = num_steps
       /\ total_time[1] = <<dtau, 1>>
       /\ \A i \in 1..(num_steps - 1) : RatLess(total_time[i], total_time[i + 1])
       /\ total_time[num_steps] = <<dtau * num_steps, 1>>

\* the circuit without its rotations by the angle 0
WithoutZeroRotations(circuit) == SelectSeq(circuit, LAMBDA g : ~IsIdentityGate(g))

\* C14 as stated: with U the identity and no Z position pauli_real and
\* pauli_imag queue the gate sequences of amplitude_real and amplitude_imag.
C14_Original ==
    (est.U = Identity /\ est.pauli = <<>>) =>
       /\ pauli_real(est.Q, V_T, est.U, est.pauli) = amplitude_real(est.Q, V_T)
       /\ pauli_imag(est.Q, V_T, est.U, est.pauli) = amplitude_imag(est.Q, V_T)

\* C14: with U the identity and no Z position the basis change is not
\* skipped: pauli_real and pauli_imag queue, between the two halves of the
\* amplitude circuit, one RZ of angle 0 per wire and then the adjoints of
\* these gates, 2*NumQubits gates more than amplitude_real and
\* amplitude_imag; the added gates are identities, so without them the
\* sequences are those of amplitude_real and amplitude_imag and on an exact
\* device pauli_estimate returns the value of amplitude_estimate.
C14_ReducesToAmplitude ==
    (est.U = Identity /\ est.pauli = <<>>) =>
       LET pr == pauli_real(est.Q, V_T, est.U, est.pauli)
           pi == pauli_imag(est.Q, V_T, est.U, est.pauli)
           ar == amplitude_real(est.Q, V_T)
           ai == amplitude_imag(est.Q, V_T)
           id == PhaseGates(Identity.diagonal) \o Adjoint(PhaseGates(Identity.diagonal))
       IN  /\ pr = circuit_first_half(est.Q) \o id \o circuit_second_half_real(est.Q, V_T)
           /\ pi = circuit_first_half(est.Q) \o id \o circuit_second_half_imag(est.Q, V_T)
           /\ Len(pr) = Len(ar) + 2 * NumQubits
           /\ Len(pi) = Len(ai) + 2 * NumQubits
           /\ WithoutZeroRotations(pr) = WithoutZeroRotations(ar)
           /\ WithoutZeroRotations(pi) = WithoutZeroRotations(ai)
           /\ est.st = "done" => est.expectation = est.amplitude

\* both estimators have run on a walker whose circuit has Givens rotations,
\* with U the identity and no Z position
C14_Witness ==
    /\ est.st = "done"
    /\ est.U = Identity
    /\ est.pauli = <<>>
    /\ est.Q.decomposition # <<>>
    /\ est.expectation = est.amplitude
    /\ est.amplitude.real # est.amplitude.imag

\* C15: the trial reference and the content of the trial array never change
\* and equal the trial the run was given, so every step's calls are handed
\* that trial; the calls of a step leave every array of the controller as it
\* was; the population a step leaves is made of arrays created from the
\* step's results, none of them the trial array or shared with another
\* walker, holding the new walkers that passed the weight test in order.
C15_TrialUnchanged ==
    [][ /\ mem.trial = 1
        /\ mem'.trial = mem.trial
        /\ mem.heap[mem.trial] = trial
        /\ mem'.heap[mem'.trial] = mem.heap[mem.trial]
        /\ (mem.pc = "loop" /\ mem'.pc = "collect") =>
              /\ mem'.heap = mem.heap
              /\ mem'.walkers = mem.walkers
              /\ Len(mem'.results) = Len(mem.walkers)
        /\ (mem.pc = "collect" /\ mem'.pc = "loop") =>
              /\ \A i \in 1..Len(mem'.walkers) : mem'.walkers[i] # mem'.trial
              /\ \A i, j \in 1..Len(mem'.walkers) :
                    i # j => mem'.walkers[i] # mem'.walkers[j]
              /\ \E kept \in SUBSET (1..Len(mem.results)) :
                    [i \in 1..Len(mem'.walkers) |-> mem'.heap[mem'.walkers[i]]]
                        = Subsequence(mem.results, kept, 1)
      ]_vars

\* two steps after a start with two references to the trial array, the
\* population is two arrays that differ from the trial
C15_Witness ==
    /\ mem.pc = "loop"
    /\ num_walkers = 2
    /\ mem.t_step >= 2
    /\ Len(mem.walkers) = 2
    /\ mem.heap[mem.walkers[1]] # mem.heap[mem.trial]
    /\ mem.heap[mem.walkers[2]] # mem.heap[mem.trial]

====
